---- MODULE Spec2Model ----
(***************************************************************************)
(* SortSense backend (src/backend/app.py): the in-process KPI aggregator   *)
(* mock_kpis, the four HTTP handlers, the warehouse insert helpers and the *)
(* invoice text heuristic.                                                 *)
(*                                                                         *)
(* Numbers.  Weights are counted in hundredths of a kilogram and costs in  *)
(* hundredths of a dollar (0.05 kg is 5, 15.2 kg is 1520, $45 is 4500), so *)
(* the float sums of the source are exact integer sums here.  The quotient *)
(* diversion_rate is kept as a reduced fraction [num, den]; 0.0 is 0/1.    *)
(* Float rounding is outside the model.                                    *)
(***************************************************************************)
EXTENDS Integers, Sequences, FiniteSets, TLC

VARIABLES
    WRITER_API_KEY,  \* TRUE iff the environment sets a non-empty key
    heap,            \* the dict objects ever bound to the global, by identity
    mock_kpis,       \* the global name: the identity (index in heap) it is bound to
    waste_events,    \* warehouse table WASTE_EVENTS, rows in insertion order
    invoice_lines,   \* warehouse table INVOICE_LINES, rows in insertion order
    response,        \* what the last completed request returned
    input,           \* the last request and what its external calls did
    clean,           \* history: a reset completed and no submission followed it
    submissions,     \* number of submissions handled so far
    thr,             \* per thread: the handler it runs, its position and its locals
    prior,           \* history: the dict before the last application or race
    text,            \* argument of parse_invoice_text
    parsed           \* its result, once parse_invoice_text has returned

vars == <<WRITER_API_KEY, heap, mock_kpis, waste_events, invoice_lines,
          response, input, clean, submissions, thr, prior, text, parsed>>

\* ------------------------------------------------------------------ bounds

MaxSubmissions == 3
MaxTextLen == 5
MaxTotal == 8
MaxPrior == 1

\* --------------------------------------------------------------- fractions

RECURSIVE Gcd(_, _)
Gcd(a, b) == IF b = 0 THEN a ELSE Gcd(b, a % b)

\* a / b for b > 0, a >= 0, as the reduced fraction
Quotient(a, b) == LET g == Gcd(a, b) IN [num |-> a \div g, den |-> b \div g]

Zero == [num |-> 0, den |-> 1]

\* --------------------------------------------------------- the aggregator

\* the dict literal bound to mock_kpis at import and again by reset_kpis
NewKpis ==
    [recycle_kg |-> 0, compost_kg |-> 0, landfill_kg |-> 0, diversion_rate |-> Zero]

TotalKeys == {"recycle_kg", "compost_kg", "landfill_kg"}

\* RouteKey with the last elif written as a plain else
RouteKeyDefaultsToLandfill(route) ==
    CASE route = "recycle" -> "recycle_kg"
      [] route = "compost" -> "compost_kg"
      [] OTHER -> "landfill_kg"

\* the if/elif chain of upload_image: which total a route adds to
RouteKey(route) ==
    CASE route = "recycle" -> "recycle_kg"
      [] route = "compost" -> "compost_kg"
      [] route = "landfill" -> "landfill_kg"
      [] OTHER -> "none"

\* the if/elif chain of upload_invoice: which total a line type adds to
LineTypeKey(line_type) ==
    CASE line_type = "recycling" -> "recycle_kg"
      [] line_type = "compost" -> "compost_kg"
      [] line_type = "landfill" -> "landfill_kg"
      [] OTHER -> "none"

\* AddWeight with "=" written for "+=": the total is overwritten
AddWeightOverwrites(k, key, weight) ==
    IF key = "none" THEN k ELSE [k EXCEPT ![key] = weight]

\* mock_kpis[key] += weight; no branch of the chain taken when key is "none"
AddWeight(k, key, weight) ==
    IF key = "none" THEN k ELSE [k EXCEPT ![key] = @ + weight]

\* item.get("est_weight_kg", 0.1)
ItemWeight(item) ==
    IF "est_weight_kg" \in DOMAIN item THEN item.est_weight_kg ELSE 10

\* line.get("weight_kg", 0)
LineWeight(line) ==
    IF "weight_kg" \in DOMAIN line THEN line.weight_kg ELSE 0

\* one iteration of upload_image's loop
ApplyItem(k, item) == AddWeight(k, RouteKey(item.route), ItemWeight(item))

\* one iteration of upload_invoice's loop
ApplyLine(k, line) == AddWeight(k, LineTypeKey(line.line_type), LineWeight(line))

RECURSIVE ApplyItems(_, _)
ApplyItems(k, its) ==
    IF its = <<>> THEN k ELSE ApplyItems(ApplyItem(k, Head(its)), Tail(its))

RECURSIVE ApplyLines(_, _)
ApplyLines(k, ls) ==
    IF ls = <<>> THEN k ELSE ApplyLines(ApplyLine(k, Head(ls)), Tail(ls))

\* DiversionRate with the recomputation left out
DiversionRateStale(k) == k.diversion_rate

\* "Calculate diversion rate": total_waste, then the guarded division
DiversionRate(k) ==
    LET total_waste == k.recycle_kg + k.compost_kg + k.landfill_kg
    IN  IF total_waste > 0
        THEN Quotient(k.recycle_kg + k.compost_kg, total_waste)
        ELSE Zero

Recompute(k) == [k EXCEPT !.diversion_rate = DiversionRate(k)]

\* ------------------------------------------------- invoice text heuristic
\* A text is a sequence of tokens: the words, numbers and line breaks that
\* single spaces and "\n" separate in the source's texts.  A number token
\* carries its first and its last digit run (they differ only in a period
\* such as 2025-01) and whether a "$" precedes it.

Word(s) == [k |-> "word", s |-> s, v |-> 0, u |-> 0, dollar |-> FALSE]
Num(v) == [k |-> "num", s |-> "", v |-> v, u |-> v, dollar |-> FALSE]
Usd(v) == [k |-> "num", s |-> "", v |-> v, u |-> v, dollar |-> TRUE]
Period(y, m) == [k |-> "num", s |-> "-", v |-> y, u |-> m, dollar |-> FALSE]
NL == [k |-> "nl", s |-> "", v |-> 0, u |-> 0, dollar |-> FALSE]

\* the text upload_invoice parses
SampleText ==
    << Word("Recycling"), Num(1520), Word("kg"), Usd(4500), NL,
       Word("Landfill"), Num(870), Word("kg"), Usd(3200), NL,
       Word("Compost"), Num(1210), Word("kg"), Usd(2800), NL,
       Word("Period"), Period(202500, 100), Word("Vendor"), Word("GreenCity") >>

\* the words of the vocabulary in which each keyword pattern matches under
\* re.I: recycl\w+ and compost\w+ need a word character after the stem
KindWords(kind) ==
    CASE kind = "recycl\\w+" -> {"Recycling"}
      [] kind = "landfill" -> {"Landfill"}
      [] kind = "compost\\w+" -> {"Composting"}

\* the words at whose start (?:kg|tons?) matches
UnitWords == {"kg", "ton", "tons"}

KindAt(t, kind, i) == t[i].k = "word" /\ t[i].s \in KindWords(kind)

\* "." matches no newline: .*? stays on the keyword's line
SameLine(t, i, j) == \A m \in (i + 1)..j : t[m].k # "nl"

IsUnit(t, j) == j <= Len(t) /\ t[j].k = "word" /\ t[j].s \in UnitWords

\* (\d+(?:\.\d+)?)\s?(?:kg|tons?) at token j: the unit follows the number
\* after at most one whitespace character, which may be the line break
WeightAt(t, j) ==
    /\ t[j].k = "num"
    /\ \/ IsUnit(t, j + 1)
       \/ (j < Len(t) /\ t[j + 1].k = "nl" /\ IsUnit(t, j + 2))

\* \$?\s?(\d+(?:\.\d+)?) at token j, reached from the keyword at i: the "$"
\* is optional, and \s? may take the line break that ends the keyword's
\* line when the number opens the next line with no "$"
CostAt(t, i, j) ==
    /\ t[j].k = "num"
    /\ \/ SameLine(t, i, j)
       \/ (j > i + 1 /\ t[j - 1].k = "nl" /\ SameLine(t, i, j - 2) /\ ~t[j].dollar)

Min(S) == CHOOSE x \in S : \A y \in S : x <= y

\* re.search: the leftmost keyword from which the pattern matches, and the
\* lazy .*? then stops at the first token that completes it
KgMatch(t, kind) ==
    LET starts == {i \in 1..Len(t) : KindAt(t, kind, i) /\
                     \E j \in (i + 1)..Len(t) : SameLine(t, i, j) /\ WeightAt(t, j)}
    IN  IF starts = {} THEN 0
        ELSE LET i == Min(starts)
             IN  Min({j \in (i + 1)..Len(t) : SameLine(t, i, j) /\ WeightAt(t, j)})

UsdMatch(t, kind) ==
    LET starts == {i \in 1..Len(t) : KindAt(t, kind, i) /\
                     \E j \in (i + 1)..Len(t) : CostAt(t, i, j)}
    IN  IF starts = {} THEN 0
        ELSE LET i == Min(starts)
             IN  Min({j \in (i + 1)..Len(t) : CostAt(t, i, j)})

\* grab(kind): (float(kg.group(1)) if kg else 0.0, float(usd.group(1)) if usd else 0.0)
grab(t, kind) ==
    LET kg == KgMatch(t, kind)
        usd == UsdMatch(t, kind)
    IN  [kg |-> IF kg # 0 THEN t[kg].u ELSE 0,
         usd |-> IF usd # 0 THEN t[usd].v ELSE 0]

Line(line_type, g) ==
    [line_type |-> line_type, weight_kg |-> g.kg, cost_usd |-> g.usd]

\* Emit that also keeps a category with a cost and no weight
EmitOnCost(g) == g.kg # 0 \/ g.usd # 0

\* "if rkg: lines.append(...)": a float is truthy iff it is not 0.0
Emit(g) == g.kg # 0

parse_invoice_text(t) ==
    LET r == grab(t, "recycl\\w+")
        l == grab(t, "landfill")
        c == grab(t, "compost\\w+")
    IN  [lines |-> (IF Emit(r) THEN <<Line("recycling", r)>> ELSE <<>>)
                \o (IF Emit(c) THEN <<Line("compost", c)>> ELSE <<>>)
                \o (IF Emit(l) THEN <<Line("landfill", l)>> ELSE <<>>)]

\* ------------------------------------------------- calls that leave the process
\* An external call either returns or raises; "try: ... except Exception"
\* turns a raise into a printed message and lets the handler go on.

Outcome(up) == IF up THEN "returned" ELSE "raised"

\* Guarded with the try/except left out
Unguarded(outcome) == outcome

\* the call inside "try: ... except Exception as e: print(...)"
Guarded(outcome) == IF outcome = "raised" THEN "caught" ELSE outcome

\* the mock classification upload_image returns
items ==
    << [label |-> "plastic_bottle", route |-> "recycle", confidence |-> 95,
        est_weight_kg |-> 5, tip |-> "Place plastic bottle in the recycle bin."],
       [label |-> "aluminum_can", route |-> "recycle", confidence |-> 88,
        est_weight_kg |-> 2, tip |-> "Place aluminum can in the recycle bin."],
       [label |-> "pizza_box_greasy", route |-> "landfill", confidence |-> 92,
        est_weight_kg |-> 15, tip |-> "Place greasy pizza box in the landfill bin."] >>

\* one cur.execute of insert_waste_events: r["source"], r["label"] and
\* r["route"] raise KeyError when the row lacks the key
WasteEventRow(r) ==
    [source |-> r.source, label |-> r.label, route |-> r.route,
     confidence |-> IF "confidence" \in DOMAIN r THEN r.confidence ELSE 0,
     est_weight_kg |-> ItemWeight(r)]

RECURSIVE ExecuteWasteEvents(_, _)
ExecuteWasteEvents(rows, table) ==
    IF rows = <<>> THEN [table |-> table, outcome |-> "returned"]
    ELSE IF {"source", "label", "route"} \subseteq DOMAIN Head(rows)
         THEN ExecuteWasteEvents(Tail(rows), Append(table, WasteEventRow(Head(rows))))
         ELSE [table |-> table, outcome |-> "raised"]

\* sf() raises when the warehouse is down; otherwise one INSERT per row
insert_waste_events(up, rows, table) ==
    IF up THEN ExecuteWasteEvents(rows, table)
    ELSE [table |-> table, outcome |-> "raised"]

InvoiceLineRow(L) ==
    [line_type |-> L.line_type, weight_kg |-> LineWeight(L),
     cost_usd |-> IF "cost_usd" \in DOMAIN L THEN L.cost_usd ELSE 0]

RECURSIVE ExecuteInvoiceLines(_, _)
ExecuteInvoiceLines(lines, table) ==
    IF lines = <<>> THEN [table |-> table, outcome |-> "returned"]
    ELSE IF "line_type" \in DOMAIN Head(lines)
         THEN ExecuteInvoiceLines(Tail(lines), Append(table, InvoiceLineRow(Head(lines))))
         ELSE [table |-> table, outcome |-> "raised"]

insert_invoice_lines(up, lines, table) ==
    IF up THEN ExecuteInvoiceLines(lines, table)
    ELSE [table |-> table, outcome |-> "raised"]

WriterOutcomes == {"ok", "network_error", "timeout", "malformed"}

\* writer_kpi_summary: the local template without a key; with one, the
\* request and the unpacking of its reply, neither inside a try
writer_kpi_summary(key, w, data) ==
    IF ~key
    THEN [outcome |-> "returned",
          summary |-> [kind |-> "template", dr |-> data.diversion_rate]]
    ELSE IF w = "ok"
         THEN [outcome |-> "returned", summary |-> [kind |-> "generated", dr |-> Zero]]
         ELSE [outcome |-> "raised", summary |-> [kind |-> "none", dr |-> Zero]]

\* ------------------------------------------------------------ the handlers

Kpis == heap[mock_kpis]

ServerError(op) == [op |-> op, status |-> 500]

ImageKpis(k) == Recompute(ApplyItems(k, items))

InvoiceKpis(k) == Recompute(ApplyLines(k, parse_invoice_text(SampleText).lines))

\* POST /upload-image, the object store and the warehouse up or down
upload_image(s3up, sfup) ==
    /\ submissions < MaxSubmissions
    /\ LET put == Guarded(Outcome(s3up))
           ins == insert_waste_events(sfup, items, waste_events)
       IN  IF put = "raised"
           THEN /\ response' = ServerError("upload-image")
                /\ UNCHANGED <<heap, waste_events>>
           ELSE /\ heap' = [heap EXCEPT ![mock_kpis] = ImageKpis(@)]
                /\ waste_events' = ins.table
                /\ response' =
                     IF Guarded(ins.outcome) = "raised"
                     THEN ServerError("upload-image")
                     ELSE [op |-> "upload-image", status |-> 200, ok |-> TRUE,
                           items |-> items]
    /\ input' = [op |-> "upload-image", s3 |-> s3up, sf |-> sfup]
    /\ clean' = FALSE
    /\ submissions' = submissions + 1
    /\ UNCHANGED <<WRITER_API_KEY, mock_kpis, invoice_lines, thr, prior, text, parsed>>

\* POST /upload-invoice
upload_invoice(s3up, sfup) ==
    /\ submissions < MaxSubmissions
    /\ LET put == Guarded(Outcome(s3up))
           p == parse_invoice_text(SampleText)
           ins == insert_invoice_lines(sfup, p.lines, invoice_lines)
       IN  IF put = "raised"
           THEN /\ response' = ServerError("upload-invoice")
                /\ UNCHANGED <<heap, invoice_lines>>
           ELSE /\ heap' = [heap EXCEPT ![mock_kpis] = InvoiceKpis(@)]
                /\ invoice_lines' = ins.table
                /\ response' =
                     IF Guarded(ins.outcome) = "raised"
                     THEN ServerError("upload-invoice")
                     ELSE [op |-> "upload-invoice", status |-> 200, ok |-> TRUE,
                           parsed |-> p]
    /\ input' = [op |-> "upload-invoice", s3 |-> s3up, sf |-> sfup]
    /\ clean' = FALSE
    /\ submissions' = submissions + 1
    /\ UNCHANGED <<WRITER_API_KEY, mock_kpis, waste_events, thr, prior, text, parsed>>

\* GET /kpis: a copy of the dict plus the summary
kpis(w) ==
    /\ LET data == Kpis
           s == writer_kpi_summary(WRITER_API_KEY, w, data)
       IN  response' =
             IF s.outcome = "raised"
             THEN ServerError("kpis")
             ELSE [op |-> "kpis", status |-> 200,
                   recycle_kg |-> data.recycle_kg, compost_kg |-> data.compost_kg,
                   landfill_kg |-> data.landfill_kg,
                   diversion_rate |-> data.diversion_rate, summary |-> s.summary]
    /\ input' = [op |-> "kpis", writer |-> IF WRITER_API_KEY THEN w ELSE "not_called"]
    /\ UNCHANGED <<WRITER_API_KEY, heap, mock_kpis, waste_events, invoice_lines,
                   clean, submissions, thr, prior, text, parsed>>

\* the dict objects some thread still holds a reference to
Held(th) == {th[t].ref : t \in DOMAIN th} \ {0}

\* "global mock_kpis; mock_kpis = {...}": the name is bound to a new dict;
\* the old one lives on only where a running handler still holds it
Rebind(h, th) ==
    LET keep == Held(th)
        id == Min((1..(Cardinality(keep) + 1)) \ keep)
    IN  [heap |-> [o \in keep \cup {id} |-> IF o = id THEN NewKpis ELSE h[o]],
         mock_kpis |-> id]

\* POST /reset-kpis
reset_kpis ==
    /\ LET b == Rebind(heap, thr)
       IN  heap' = b.heap /\ mock_kpis' = b.mock_kpis
    /\ response' = [op |-> "reset-kpis", status |-> 200, ok |-> TRUE,
                    message |-> "KPIs reset to zero"]
    /\ input' = [op |-> "reset-kpis"]
    /\ clean' = TRUE
    /\ UNCHANGED <<WRITER_API_KEY, waste_events, invoice_lines, submissions, thr,
                   prior, text, parsed>>

NoResponse == [op |-> "none", status |-> 0]

Unparsed == [done |-> FALSE, lines |-> <<>>]

\* the process after import: the module-level dict, nothing handled yet
Init ==
    /\ WRITER_API_KEY \in BOOLEAN
    /\ heap = [o \in {1} |-> NewKpis]
    /\ mock_kpis = 1
    /\ waste_events = <<>>
    /\ invoice_lines = <<>>
    /\ response = NoResponse
    /\ input = [op |-> "none"]
    /\ clean = FALSE
    /\ submissions = 0
    /\ thr = <<>>
    /\ prior = NewKpis
    /\ text = <<>>
    /\ parsed = Unparsed

\* requests handled one after another, each to completion
Next ==
    \/ \E s3up \in BOOLEAN, sfup \in BOOLEAN : upload_image(s3up, sfup)
    \/ \E s3up \in BOOLEAN, sfup \in BOOLEAN : upload_invoice(s3up, sfup)
    \/ \E w \in WriterOutcomes : kpis(w)
    \/ reset_kpis

Spec == Init /\ [][Next]_vars

\* ----------------------------------------------- properties of Spec

IsPrefix(a, b) == Len(a) <= Len(b) /\ \A i \in 1..Len(a) : a[i] = b[i]

Totals(k) == k.recycle_kg + k.compost_kg + k.landfill_kg

\* C1: after any sequence of image submissions, invoice submissions and
\* resets, each run to completion, the stored diversion_rate is
\* (recycle_kg + compost_kg) / (recycle_kg + compost_kg + landfill_kg) when
\* that denominator is positive, and exactly 0 when it is 0.
C1_DiversionRateInvariant ==
    LET k == Kpis
    IN  IF Totals(k) > 0
        THEN /\ k.diversion_rate.den > 0
             /\ k.diversion_rate.num * Totals(k)
                  = (k.recycle_kg + k.compost_kg) * k.diversion_rate.den
        ELSE k.diversion_rate.num = 0

\* an image and then an invoice have been added to the same dict
C1_Witness ==
    /\ input.op = "upload-invoice"
    /\ Kpis.recycle_kg = 1527
    /\ Kpis.landfill_kg = 885
    /\ Kpis.diversion_rate.num > 0

ZeroFields(r) ==
    /\ r.recycle_kg = 0
    /\ r.compost_kg = 0
    /\ r.landfill_kg = 0
    /\ r.diversion_rate.num = 0

\* C2: once POST /reset-kpis has completed, every GET /kpis read before the
\* next submission returns recycle_kg, compost_kg, landfill_kg and
\* diversion_rate all equal to 0.0.
C2_ReadAfterResetReturnsZeros ==
    (input.op = "kpis" /\ clean) => (response.status = 200 /\ ZeroFields(response))

\* what does hold of a read after a reset: the stored dict is all zero, and
\* a read that returns at all returns zeros
C2_StoredZerosAfterReset ==
    clean => /\ ZeroFields(Kpis)
             /\ (input.op = "kpis" /\ response.status = 200) => ZeroFields(response)

\* C3: with text-generation credentials configured and the text-generation
\* call failing (network error, timeout or malformed reply), GET /kpis does
\* not fail: it returns the four current KPI fields and a summary made by
\* the local template.
C3_KpisSurvivesWriterFailure ==
    (input.op = "kpis" /\ WRITER_API_KEY /\ input.writer # "ok")
        => /\ response.status = 200
           /\ response.summary.kind = "template"
           /\ response.recycle_kg = Kpis.recycle_kg
           /\ response.compost_kg = Kpis.compost_kg
           /\ response.landfill_kg = Kpis.landfill_kg
           /\ response.diversion_rate = Kpis.diversion_rate

\* C4: whatever the object-store put and the warehouse insert do, an image
\* or invoice submission completes with ok = true, and the totals and the
\* diversion_rate are updated as they are when both calls succeed (ImageKpis
\* and InvoiceKpis take no outcome: they are that update).
C4_SubmissionsNeverFail ==
    [][\A s3up \in BOOLEAN, sfup \in BOOLEAN :
          /\ upload_image(s3up, sfup)
               => /\ response'.status = 200
                  /\ response'.ok
                  /\ Kpis' = ImageKpis(Kpis)
          /\ upload_invoice(s3up, sfup)
               => /\ response'.status = 200
                  /\ response'.ok
                  /\ Kpis' = InvoiceKpis(Kpis)]_vars

\* an image submission completed with the object store and the warehouse down
C4_Witness ==
    /\ input.op = "upload-image"
    /\ ~input.s3
    /\ ~input.sf
    /\ response.status = 200
    /\ response.ok
    /\ Kpis.recycle_kg >= 7

\* C7: with the warehouse available, an image submission appends exactly
\* one waste-event row per item of its response and an invoice submission
\* exactly one invoice-line row per parsed line of its response; rows are
\* only ever appended.
C7_OneRowPerItemAndLine ==
    [][/\ IsPrefix(waste_events, waste_events')
       /\ IsPrefix(invoice_lines, invoice_lines')
       /\ \A s3up \in BOOLEAN :
            /\ upload_image(s3up, TRUE)
                 => /\ Len(waste_events') = Len(waste_events) + Len(response'.items)
                    /\ \A i \in 1..Len(response'.items) :
                         waste_events'[Len(waste_events) + i].label
                           = response'.items[i].label
            /\ upload_invoice(s3up, TRUE)
                 => /\ Len(invoice_lines')
                         = Len(invoice_lines) + Len(response'.parsed.lines)
                    /\ \A i \in 1..Len(response'.parsed.lines) :
                         invoice_lines'[Len(invoice_lines) + i].line_type
                           = response'.parsed.lines[i].line_type]_vars

\* the part of C7 the handlers keep: the tables only grow, and an invoice
\* submission with the warehouse up appends one row per parsed line
C7_InvoiceRowsAndAppendOnly ==
    [][/\ IsPrefix(waste_events, waste_events')
       /\ IsPrefix(invoice_lines, invoice_lines')
       /\ \A s3up \in BOOLEAN :
            upload_invoice(s3up, TRUE)
              => Len(invoice_lines') = Len(invoice_lines) + Len(response'.parsed.lines)]_vars

\* the four KPI fields of a dict
Fields(k) == <<k.recycle_kg, k.compost_kg, k.landfill_kg, k.diversion_rate>>

\* C11: in every state reached by a sequence of image submissions, invoice
\* submissions, KPI reads and resets, each run to completion, recycle_kg,
\* compost_kg and landfill_kg are >= 0 and diversion_rate lies in [0, 1];
\* every step other than a reset leaves each total at least what it was,
\* and a GET /kpis read leaves the four fields as they were.
C11_TotalsNonNegativeAndMonotone ==
    /\ [](/\ \A key \in TotalKeys : Kpis[key] >= 0
          /\ Kpis.diversion_rate.den > 0
          /\ Kpis.diversion_rate.num >= 0
          /\ Kpis.diversion_rate.num <= Kpis.diversion_rate.den)
    /\ [][/\ ~reset_kpis => \A key \in TotalKeys : Kpis'[key] >= Kpis[key]
           /\ \A w \in WriterOutcomes : kpis(w) => Fields(Kpis') = Fields(Kpis)]_vars

\* a read answered after an invoice and then an image were added to the same
\* dict: the totals are those of the two submissions, the rate is strictly
\* between 0 and 1
C11_Witness ==
    /\ input.op = "kpis"
    /\ response.status = 200
    /\ Kpis.recycle_kg = 1527
    /\ Kpis.landfill_kg = 885
    /\ response.recycle_kg = 1527
    /\ Kpis.diversion_rate.num > 0
    /\ Kpis.diversion_rate.num < Kpis.diversion_rate.den

\* --------------------------------- parse_invoice_text on bounded texts

Alphabet ==
    {Word("Recycling"), Word("Landfill"), Word("Composting"), Word("kg"),
     Num(0), Num(700), Usd(300), NL}

\* "Recycling 520 kg $180"
Text520 == <<Word("Recycling"), Num(52000), Word("kg"), Usd(18000)>>

Texts ==
    UNION {[1..n -> Alphabet] : n \in 0..MaxTextLen} \cup {SampleText, Text520}

InitParse ==
    /\ WRITER_API_KEY = FALSE
    /\ heap = [o \in {1} |-> NewKpis]
    /\ mock_kpis = 1
    /\ waste_events = <<>>
    /\ invoice_lines = <<>>
    /\ response = NoResponse
    /\ input = [op |-> "none"]
    /\ clean = FALSE
    /\ submissions = 0
    /\ thr = <<>>
    /\ prior = NewKpis
    /\ text \in Texts
    /\ parsed = Unparsed

parse_call ==
    /\ ~parsed.done
    /\ parsed' = [done |-> TRUE, lines |-> parse_invoice_text(text).lines]
    /\ UNCHANGED <<WRITER_API_KEY, heap, mock_kpis, waste_events, invoice_lines,
                   response, input, clean, submissions, thr, prior, text>>

NextParse == parse_call

SpecParse == InitParse /\ [][NextParse]_vars

LineTypes == {"recycling", "compost", "landfill"}

\* the words that name a category in an invoice
CategoryWords(line_type) ==
    CASE line_type = "recycling" -> {"Recycling"}
      [] line_type = "compost" -> {"Compost", "Composting"}
      [] line_type = "landfill" -> {"Landfill"}

KindOf(line_type) ==
    CASE line_type = "recycling" -> "recycl\\w+"
      [] line_type = "compost" -> "compost\\w+"
      [] line_type = "landfill" -> "landfill"

IsCategoryWord(tok) ==
    tok.k = "word" /\ \E c \in LineTypes : tok.s \in CategoryWords(c)

LinesOf(line_type) ==
    {i \in 1..Len(parsed.lines) : parsed.lines[i].line_type = line_type}

\* the category is written "<Keyword> <w> kg $<c>" at token i
WrittenAt(line_type, i) ==
    /\ i + 3 <= Len(text)
    /\ text[i].k = "word" /\ text[i].s \in CategoryWords(line_type)
    /\ text[i + 1].k = "num" /\ ~text[i + 1].dollar
    /\ text[i + 2].k = "word" /\ text[i + 2].s = "kg"
    /\ text[i + 3].k = "num" /\ text[i + 3].dollar

FirstWritten(line_type) ==
    Min({i \in 1..Len(text) : WrittenAt(line_type, i)})

\* C5: for a text in which a category appears as "<Keyword> <w> kg $<c>",
\* parse_invoice_text emits for that category a line with weight_kg = w and
\* cost_usd = c; for the sample text the lines are (recycling, 15.2, 45),
\* (compost, 12.1, 28), (landfill, 8.7, 32).
C5_WeightAndCostExtracted ==
    parsed.done =>
      /\ \A c \in LineTypes :
           (\E i \in 1..Len(text) : WrittenAt(c, i))
             => \E n \in LinesOf(c) :
                  /\ parsed.lines[n].weight_kg = text[FirstWritten(c) + 1].v
                  /\ parsed.lines[n].cost_usd = text[FirstWritten(c) + 3].v
      /\ text = SampleText
           => parsed.lines = << Line("recycling", [kg |-> 1520, usd |-> 4500]),
                                Line("compost", [kg |-> 1210, usd |-> 2800]),
                                Line("landfill", [kg |-> 870, usd |-> 3200]) >>

\* token j belongs to the category: it follows one of the category's words
\* on the same line with no other category word in between
InSegment(line_type, j) ==
    \E i \in 1..(j - 1) :
        /\ text[i].k = "word" /\ text[i].s \in CategoryWords(line_type)
        /\ SameLine(text, i, j)
        /\ \A m \in (i + 1)..j : ~IsCategoryWord(text[m])

GivesCost(line_type) ==
    \E j \in 1..Len(text) :
        InSegment(line_type, j) /\ text[j].k = "num" /\ text[j].dollar

CarriesWeight(line_type) ==
    \E j \in 1..Len(text) : InSegment(line_type, j) /\ WeightAt(text, j)

\* a weight token after the category's word on that word's line, whichever
\* category carries it
WeightFollows(line_type) ==
    \E i \in 1..Len(text), j \in 1..Len(text) :
        /\ i < j
        /\ text[i].k = "word" /\ text[i].s \in CategoryWords(line_type)
        /\ SameLine(text, i, j)
        /\ WeightAt(text, j)

EmittedIffWeight ==
    \A c \in LineTypes :
        /\ Cardinality(LinesOf(c)) <= 1
        /\ (LinesOf(c) # {}) <=> (grab(text, KindOf(c)).kg # 0)
        /\ \A n \in LinesOf(c) : parsed.lines[n].weight_kg = grab(text, KindOf(c)).kg

\* C6 as stated: a line is emitted for a category iff the weight extracted
\* for it is non-zero, and a text that gives a cost for a category but no
\* weight token for it has no line for it, whatever weight tokens the other
\* categories carry.
C6_CostOnlyCategoryDropped ==
    parsed.done =>
      /\ EmittedIffWeight
      /\ \A c \in LineTypes :
           (GivesCost(c) /\ ~CarriesWeight(c)) => LinesOf(c) = {}

\* C6 as amended: a line is emitted for a category iff the weight extracted
\* for it is non-zero, and a text that gives a cost for a category has no
\* line for it when no weight token (a number followed, after at most one
\* space or line break, by kg or ton) comes after the category's word on
\* that word's line.
C6_CostOnlyCategoryDroppedUnlessWeightFollows ==
    parsed.done =>
      /\ EmittedIffWeight
      /\ \A c \in LineTypes :
           (GivesCost(c) /\ ~WeightFollows(c)) => LinesOf(c) = {}

\* "Landfill 7 kg Recycling $3": landfill has its line, recycling has none
C6_Witness ==
    /\ parsed.done
    /\ GivesCost("recycling")
    /\ ~WeightFollows("recycling")
    /\ LinesOf("recycling") = {}
    /\ CarriesWeight("landfill")
    /\ LinesOf("landfill") # {}

\* ------------------------- one loop iteration applied to arbitrary inputs

Names == {"recycle", "recycling", "compost", "landfill", "trash"}

Weights == 0..2

InitApply ==
    /\ WRITER_API_KEY = FALSE
    /\ heap = [o \in {1} |-> NewKpis]
    /\ mock_kpis = 1
    /\ waste_events = <<>>
    /\ invoice_lines = <<>>
    /\ response = NoResponse
    /\ input = [op |-> "none"]
    /\ clean = FALSE
    /\ submissions = 0
    /\ thr = <<>>
    /\ prior = NewKpis
    /\ text = <<>>
    /\ parsed = Unparsed

\* the body of upload_image's loop for one item
apply_item(route, weight) ==
    /\ Totals(Kpis) + weight <= MaxTotal
    /\ heap' = [heap EXCEPT ![mock_kpis] =
                  ApplyItem(@, [route |-> route, est_weight_kg |-> weight])]
    /\ input' = [op |-> "item", name |-> route, weight |-> weight]
    /\ prior' = Kpis
    /\ UNCHANGED <<WRITER_API_KEY, mock_kpis, waste_events, invoice_lines, response,
                   clean, submissions, thr, text, parsed>>

\* the body of upload_invoice's loop for one line
apply_line(line_type, weight) ==
    /\ Totals(Kpis) + weight <= MaxTotal
    /\ heap' = [heap EXCEPT ![mock_kpis] =
                  ApplyLine(@, [line_type |-> line_type, weight_kg |-> weight])]
    /\ input' = [op |-> "line", name |-> line_type, weight |-> weight]
    /\ prior' = Kpis
    /\ UNCHANGED <<WRITER_API_KEY, mock_kpis, waste_events, invoice_lines, response,
                   clean, submissions, thr, text, parsed>>

NextApply ==
    \/ \E route \in Names, weight \in Weights : apply_item(route, weight)
    \/ \E line_type \in Names, weight \in Weights : apply_line(line_type, weight)

SpecApply == InitApply /\ [][NextApply]_vars

\* the total the claim names for a route or a line type, "none" for any other
ClaimedTotal(op, name) ==
    IF name = "compost" THEN "compost_kg"
    ELSE IF name = "landfill" THEN "landfill_kg"
    ELSE IF (op = "item" /\ name = "recycle") \/ (op = "line" /\ name = "recycling")
         THEN "recycle_kg"
         ELSE "none"

\* C10: applying one item or line adds its weight to exactly one total and
\* leaves the other two unchanged: route "recycle" or line type "recycling"
\* adds to recycle_kg, "compost" to compost_kg, "landfill" to landfill_kg;
\* any other value changes no total.
C10_OneTotalPerItem ==
    input.op \in {"item", "line"} =>
        \A key \in TotalKeys :
            Kpis[key] = prior[key]
                          + (IF key = ClaimedTotal(input.op, input.name)
                             THEN input.weight ELSE 0)

\* an item with an unrecognised route was applied to non-zero totals
C10_Witness ==
    /\ input.op = "item"
    /\ input.name = "trash"
    /\ input.weight = 2
    /\ Kpis.recycle_kg > 0
    /\ Kpis.landfill_kg > 0
    /\ Kpis = prior

\* ------------------------------------ handlers running at the same time
\* reset_kpis is a plain def, which the framework runs on a worker thread
\* while a submission's coroutine runs on the event loop; two submissions
\* overlap where the deployment serves requests on parallel threads.  The
\* interpreter may switch threads between any two bytecodes, so each load of
\* the global, each dict read and each dict write is a step of its own.
\* Only lines 191-207 and 232-248 touch mock_kpis: a thread starts at the
\* loop and is done after the store of diversion_rate.

Threads == {1, 2}

\* what the loop of a handler adds, in order
Updates(kind) ==
    IF kind = "image"
    THEN [n \in 1..Len(items) |->
            [key |-> RouteKey(items[n].route), weight |-> ItemWeight(items[n])]]
    ELSE LET ls == parse_invoice_text(SampleText).lines
         IN  [n \in 1..Len(ls) |->
                [key |-> LineTypeKey(ls[n].line_type), weight |-> LineWeight(ls[n])]]

\* the iterations left, without the leading ones that take no branch of the
\* if/elif chain
RECURSIVE SkipNone(_)
SkipNone(us) ==
    IF us = <<>> \/ Head(us).key # "none" THEN us ELSE SkipNone(Tail(us))

Local(kind, pc, todo) ==
    [kind |-> kind, pc |-> pc, todo |-> todo, i |-> 0, ref |-> 0, acc |-> 0,
     total_waste |-> 0, rate |-> Zero]

\* at the head of the loop with the iterations us still to run
AtLoop(kind, us) ==
    IF SkipNone(us) # <<>>
    THEN Local(kind, "item_load", SkipNone(us))
    ELSE [Local(kind, "total_load", <<>>) EXCEPT !.i = 1]

Start(kind) ==
    IF kind = "reset" THEN Local(kind, "rebind", <<>>)
    ELSE AtLoop(kind, Updates(kind))

\* the operands of total_waste, left to right, and of the numerator
TotalOrder == <<"recycle_kg", "compost_kg", "landfill_kg">>

NumeratorOrder == <<"recycle_kg", "compost_kg">>

\* a dict no name and no running handler refers to is gone
Collect(h, mk, th) == [o \in {mk} \cup Held(th) |-> h[o]]

RaceFrame ==
    UNCHANGED <<WRITER_API_KEY, waste_events, invoice_lines, response, input,
                clean, submissions, prior, text, parsed>>

\* InPlaceAdd with "=" written for "+="
Assign(acc, weight) == weight

\* INPLACE_ADD of "mock_kpis[key] += weight"
InPlaceAdd(acc, weight) == acc + weight

\* "mock_kpis[key] += weight", LOAD_GLOBAL: the dict the name is bound to now
item_load(t) ==
    /\ thr[t].pc = "item_load"
    /\ thr' = [thr EXCEPT ![t].ref = mock_kpis, ![t].pc = "item_read"]
    /\ UNCHANGED <<heap, mock_kpis>>
    /\ RaceFrame

\* BINARY_SUBSCR on the dict loaded
item_read(t) ==
    /\ thr[t].pc = "item_read"
    /\ thr' = [thr EXCEPT ![t].acc = heap[thr[t].ref][Head(thr[t].todo).key],
                          ![t].pc = "item_store"]
    /\ UNCHANGED <<heap, mock_kpis>>
    /\ RaceFrame

\* STORE_SUBSCR into the dict loaded, then on to the next iteration
item_store(t) ==
    /\ thr[t].pc = "item_store"
    /\ LET me == thr[t]
           u == Head(me.todo)
           h == [heap EXCEPT ![me.ref][u.key] = InPlaceAdd(me.acc, u.weight)]
           th == [thr EXCEPT ![t] = AtLoop(me.kind, Tail(me.todo))]
       IN  /\ thr' = th
           /\ heap' = Collect(h, mock_kpis, th)
    /\ UNCHANGED mock_kpis
    /\ RaceFrame

\* "total_waste = ...": LOAD_GLOBAL for the i-th operand
total_load(t) ==
    /\ thr[t].pc = "total_load"
    /\ thr' = [thr EXCEPT ![t].ref = mock_kpis, ![t].pc = "total_read"]
    /\ UNCHANGED <<heap, mock_kpis>>
    /\ RaceFrame

\* BINARY_SUBSCR for the i-th operand; after the third, "if total_waste > 0"
total_read(t) ==
    /\ thr[t].pc = "total_read"
    /\ LET me == thr[t]
           sum == me.total_waste + heap[me.ref][TotalOrder[me.i]]
           th == [thr EXCEPT ![t] =
                    IF me.i < Len(TotalOrder)
                    THEN [me EXCEPT !.ref = 0, !.total_waste = sum, !.i = me.i + 1,
                                    !.pc = "total_load"]
                    ELSE IF sum > 0
                         THEN [me EXCEPT !.ref = 0, !.total_waste = sum, !.i = 1,
                                         !.pc = "rate_num_load"]
                         ELSE [me EXCEPT !.ref = 0, !.total_waste = sum, !.i = 0,
                                         !.rate = Zero, !.pc = "rate_load"]]
       IN  /\ thr' = th
           /\ heap' = Collect(heap, mock_kpis, th)
    /\ UNCHANGED mock_kpis
    /\ RaceFrame

\* the right-hand side of the division: LOAD_GLOBAL for the i-th operand
rate_num_load(t) ==
    /\ thr[t].pc = "rate_num_load"
    /\ thr' = [thr EXCEPT ![t].ref = mock_kpis, ![t].pc = "rate_num_read"]
    /\ UNCHANGED <<heap, mock_kpis>>
    /\ RaceFrame

\* BINARY_SUBSCR for the i-th operand; after the second, the division
rate_num_read(t) ==
    /\ thr[t].pc = "rate_num_read"
    /\ LET me == thr[t]
           sum == me.acc + heap[me.ref][NumeratorOrder[me.i]]
           th == [thr EXCEPT ![t] =
                    IF me.i < Len(NumeratorOrder)
                    THEN [me EXCEPT !.ref = 0, !.acc = sum, !.i = me.i + 1,
                                    !.pc = "rate_num_load"]
                    ELSE [me EXCEPT !.ref = 0, !.acc = 0, !.i = 0, !.total_waste = 0,
                                    !.rate = Quotient(sum, me.total_waste),
                                    !.pc = "rate_load"]]
       IN  /\ thr' = th
           /\ heap' = Collect(heap, mock_kpis, th)
    /\ UNCHANGED mock_kpis
    /\ RaceFrame

\* 'mock_kpis["diversion_rate"] = ...': the value is computed, LOAD_GLOBAL
rate_load(t) ==
    /\ thr[t].pc = "rate_load"
    /\ thr' = [thr EXCEPT ![t].ref = mock_kpis, ![t].total_waste = 0,
                          ![t].pc = "rate_store"]
    /\ UNCHANGED <<heap, mock_kpis>>
    /\ RaceFrame

\* STORE_SUBSCR of diversion_rate into the dict loaded
rate_store(t) ==
    /\ thr[t].pc = "rate_store"
    /\ LET me == thr[t]
           h == [heap EXCEPT ![me.ref].diversion_rate = me.rate]
           th == [thr EXCEPT ![t] = Local(me.kind, "done", <<>>)]
       IN  /\ thr' = th
           /\ heap' = Collect(h, mock_kpis, th)
    /\ UNCHANGED mock_kpis
    /\ RaceFrame

\* reset_kpis, STORE_GLOBAL: the one step in which it touches shared state
reset_rebind(t) ==
    /\ thr[t].pc = "rebind"
    /\ LET th == [thr EXCEPT ![t] = Local("reset", "done", <<>>)]
           b == Rebind(heap, th)
       IN  /\ thr' = th
           /\ heap' = b.heap
           /\ mock_kpis' = b.mock_kpis
    /\ RaceFrame

\* the dicts that at most n submissions, one after another, leave behind
RECURSIVE After(_)
After(n) ==
    IF n = 0 THEN {NewKpis}
    ELSE After(n - 1) \cup {ImageKpis(k) : k \in After(n - 1)}
                      \cup {InvoiceKpis(k) : k \in After(n - 1)}

InitRace ==
    /\ WRITER_API_KEY = FALSE
    /\ prior \in After(MaxPrior)
    /\ heap = [o \in {1} |-> prior]
    /\ mock_kpis = 1
    /\ waste_events = <<>>
    /\ invoice_lines = <<>>
    /\ response = NoResponse
    /\ input = [op |-> "none"]
    /\ clean = FALSE
    /\ submissions = 0
    /\ \E a \in {"image", "invoice"}, b \in {"image", "invoice", "reset"} :
         thr = [t \in Threads |-> IF t = 1 THEN Start(a) ELSE Start(b)]
    /\ text = <<>>
    /\ parsed = Unparsed

NextRace ==
    \E t \in Threads :
        \/ item_load(t)
        \/ item_read(t)
        \/ item_store(t)
        \/ total_load(t)
        \/ total_read(t)
        \/ rate_num_load(t)
        \/ rate_num_read(t)
        \/ rate_load(t)
        \/ rate_store(t)
        \/ reset_rebind(t)

SpecRace == InitRace /\ [][NextRace]_vars

RaceDone == \A t \in Threads : thr[t].pc = "done"

RECURSIVE SumWeights(_, _, _)
SumWeights(us, key, n) ==
    IF n = 0 THEN 0
    ELSE SumWeights(us, key, n - 1) + (IF us[n].key = key THEN us[n].weight ELSE 0)

\* what a whole submission of this kind adds to the total
Increment(kind, key) == SumWeights(Updates(kind), key, Len(Updates(kind)))

\* C8: POST /reset-kpis is atomic with respect to a submission running at
\* the same time: whatever the interleaving, once both have completed the
\* dict GET /kpis reads satisfies the diversion-rate invariant (never all
\* totals 0 with a non-zero diversion_rate) and holds each increment of the
\* submission either entirely or not at all.
C8_ResetAtomicWithSubmission ==
    (thr[2].kind = "reset" /\ RaceDone) =>
        /\ C1_DiversionRateInvariant
        /\ \A key \in TotalKeys : Kpis[key] \in {0, Increment(thr[1].kind, key)}

====
